---- MODULE Spec2Model ----
(***************************************************************************)
(* Model of rest_api/sawtooth_rest_api/error_handlers.py: the _ErrorTrap   *)
(* base class, its classmethod check, and the ten trap classes the module  *)
(* defines.  A trap is a class with two class attributes, trigger (the int *)
(* value of a protobuf status enum member) and error (an exception class). *)
(* check(status) asserts both are set and raises error() when the status   *)
(* equals the trigger.                                                     *)
(***************************************************************************)
EXTENDS Integers, Sequences, FiniteSets, TLC

\* Python's None.  An attribute or a signal that may be None is a set of at
\* most one element, and None is the empty one.
None == {}

\* Largest status integer a response carries in the model (statuses are 0..MaxStatus).
MaxStatus == 9
\* Longest list of traps a handler passes to one classification.
MaxTraps == 2
\* Most child classes a handler module defines in SpecConfig.
MaxChildren == 2

VARIABLES
    traps,    \* the trap classes defined so far: class name -> [trigger, error]
    loaded,   \* number of class statements of the module body executed
    serving,  \* TRUE once start-up (all imports) is over and requests are handled
    req,      \* per request: position in the handler / in check, and its locals
    memo      \* a classification remembered for comparison: <<>> or <<input, signal>>

vars == <<traps, loaded, serving, req, memo>>

----------------------------------------------------------------------------
(* The protobuf status enumerations the module refers to.                  *)

\* The response messages whose Status enum a trap's trigger is taken from.
ResponseTypes ==
    { "ClientBatchStatusResponse", "ClientBatchSubmitResponse",
      "ClientStateGetResponse", "ClientStateListResponse",
      "ClientBlockGetResponse", "ClientBatchGetResponse",
      "ClientTransactionGetResponse", "ClientReceiptGetResponse" }

\* The integer a generated pb2 module gives an enum member (Python protobuf
\* enum members are plain ints).
EnumValue(enum, member) ==
    CASE member = "STATUS_UNSET"  -> 0
      [] member = "OK"            -> 1
      [] member = "INTERNAL_ERROR" -> 2
      [] member = "INVALID_BATCH" -> 3
      [] member = "QUEUE_FULL"    -> 4
      [] member = "NO_RESOURCE"   -> 5
      [] member = "INVALID_ADDRESS" ->
            IF enum = "ClientStateListResponse" THEN 8 ELSE 6

Statuses == 0 .. MaxStatus

----------------------------------------------------------------------------
(* The class statements of the module, in source order.                    *)

\* A class statement: the class name, the enum member its trigger expression
\* names (as <<message, member>>) and the exception class its error names.
\* class _ErrorTrap sets both to None.
ErrorTrap ==
    [name |-> "_ErrorTrap", trigger |-> None, error |-> None]

StatusResponseMissing ==
    [name |-> "StatusResponseMissing",
     trigger |-> {<<"ClientBatchStatusResponse", "NO_RESOURCE">>},
     error |-> {"StatusResponseMissing"}]

BatchInvalidTrap ==
    [name |-> "BatchInvalidTrap",
     trigger |-> {<<"ClientBatchSubmitResponse", "INVALID_BATCH">>},
     error |-> {"SubmittedBatchesInvalid"}]

BatchQueueFullTrap ==
    [name |-> "BatchQueueFullTrap",
     trigger |-> {<<"ClientBatchSubmitResponse", "QUEUE_FULL">>},
     error |-> {"BatchQueueFull"}]

InvalidAddressTrap ==
    [name |-> "InvalidAddressTrap",
     trigger |-> {<<"ClientStateGetResponse", "INVALID_ADDRESS">>},
     error |-> {"InvalidStateAddress"}]

BlockNotFoundTrap ==
    [name |-> "BlockNotFoundTrap",
     trigger |-> {<<"ClientBlockGetResponse", "NO_RESOURCE">>},
     error |-> {"BlockNotFound"}]

BatchNotFoundTrap ==
    [name |-> "BatchNotFoundTrap",
     trigger |-> {<<"ClientBatchGetResponse", "NO_RESOURCE">>},
     error |-> {"BatchNotFound"}]

\* TransactionNotFoundTrap with the error of the class it was copied from.
TransactionNotFoundTrapCopied ==
    [name |-> "TransactionNotFoundTrap",
     trigger |-> {<<"ClientTransactionGetResponse", "NO_RESOURCE">>},
     error |-> {"BatchNotFound"}]

TransactionNotFoundTrap ==
    [name |-> "TransactionNotFoundTrap",
     trigger |-> {<<"ClientTransactionGetResponse", "NO_RESOURCE">>},
     error |-> {"TransactionNotFound"}]

ReceiptNotFoundTrap ==
    [name |-> "ReceiptNotFoundTrap",
     trigger |-> {<<"ClientReceiptGetResponse", "NO_RESOURCE">>},
     error |-> {"ReceiptNotFound"}]

StateNotFoundTrap ==
    [name |-> "StateNotFoundTrap",
     trigger |-> {<<"ClientStateGetResponse", "NO_RESOURCE">>},
     error |-> {"StateNotFound"}]

InvalidAddressListTrap ==
    [name |-> "InvalidAddressListTrap",
     trigger |-> {<<"ClientStateListResponse", "INVALID_ADDRESS">>},
     error |-> {"InvalidStateAddress"}]

\* The module body: the class statements in the order they execute on import.
ModuleBody ==
    << ErrorTrap, StatusResponseMissing, BatchInvalidTrap, BatchQueueFullTrap,
       InvalidAddressTrap, BlockNotFoundTrap, BatchNotFoundTrap,
       TransactionNotFoundTrap, ReceiptNotFoundTrap, StateNotFoundTrap,
       InvalidAddressListTrap >>

\* The class object a class statement creates: the class body evaluates the
\* trigger expression to its int and binds both attributes before the class
\* name is bound.
ClassObject(stmt) ==
    [trigger |-> { EnumValue(t[1], t[2]) : t \in stmt.trigger },
     error   |-> stmt.error]

\* The ten concrete trap classes (every class of the module but the base).
TrapStatements == { ModuleBody[i] : i \in 2 .. Len(ModuleBody) }

\* The traps whose trigger is a member of response type rt's Status enum.
RuleSet(rt) ==
    { s.name : s \in { t \in TrapStatements : \E e \in t.trigger : e[1] = rt } }

----------------------------------------------------------------------------
(* _ErrorTrap.check, line by line.                                         *)

\* assert cls.trigger is not None
TriggerSet(cls) == cls.trigger # None

\* The second assert with its condition inverted.
ErrorSetInverted(cls) == cls.error = None

\* The second assert left out.
ErrorSetStripped(cls) == TRUE

\* assert cls.error is not None
ErrorSet(cls) == cls.error # None

\* The comparison written as status >= cls.trigger.
MatchesAtLeast(status, cls) == \E t \in cls.trigger : status >= t

\* The comparison written as status != cls.trigger.
MatchesInverted(status, cls) == {status} # cls.trigger

\* if status == cls.trigger
Matches(status, cls) == {status} = cls.trigger

\* raise cls.error(): the exception in flight
Raised(cls) == cls.error

\* AssertionError, raised by a failed assert
AssertionError == {"AssertionError"}

----------------------------------------------------------------------------
(* Start-up: the module is imported, class statement by class statement.   *)

Define(name, cls) ==
    traps' = [c \in DOMAIN traps \cup {name} |->
                 IF c = name THEN cls ELSE traps[c]]

\* The next class statement of the module body executes.  It binds the class
\* whatever its attributes are: the module has no metaclass, no decorator
\* and no registration step that would look at them.
ImportStep ==
    /\ ~serving
    /\ loaded < Len(ModuleBody)
    /\ Define(ModuleBody[loaded + 1].name, ClassObject(ModuleBody[loaded + 1]))
    /\ loaded' = loaded + 1
    /\ UNCHANGED <<serving, req, memo>>

\* The import is over: the server starts handling requests.
ImportDone ==
    /\ ~serving
    /\ loaded = Len(ModuleBody)
    /\ serving' = TRUE
    /\ UNCHANGED <<traps, loaded, req, memo>>

----------------------------------------------------------------------------
(* Request handling: a route handler receives a response of type rtype     *)
(* carrying status, and calls check on each trap of its list error_traps.  *)

Requests == {"r1", "r2"}

Idle ==
    [pc |-> "idle", rtype |-> "", status |-> 0, error_traps |-> <<>>,
     idx |-> 0, signal |-> None]

\* The lists of pairwise distinct elements of S, of length at most n.
Lists(S, n) ==
    UNION { { f \in [1 .. k -> S] : \A i, j \in 1 .. k : f[i] = f[j] => i = j }
            : k \in 0 .. n }

\* The orders in which the whole of S can be listed.
Orders(S) == { f \in Lists(S, Cardinality(S)) : Len(f) = Cardinality(S) }

Finished(q) == q.pc \in {"responded", "reported"}

\* The class under check kept in one place shared by all requests (the one
\* request r1 last entered check with) instead of in each call's own cls.
ClsShared(q) ==
    IF req["r1"].idx >= 1
    THEN traps[req["r1"].error_traps[req["r1"].idx]]
    ELSE traps[q.error_traps[q.idx]]

\* The class whose check the request is in: the call's own cls.
Cls(q) == traps[q.error_traps[q.idx]]

\* The handler starts on a response: no trap checked yet.
Start(rt, s, lst) ==
    [pc |-> IF lst = <<>> THEN "returned" ELSE "assert_trigger",
     rtype |-> rt, status |-> s, error_traps |-> lst,
     idx |-> IF lst = <<>> THEN 0 ELSE 1, signal |-> None]

\* The handler of request r may take a response: start-up is over and it is idle.
Ready(r) == serving /\ req[r].pc = "idle"

Begin(r, rt, s, lst) ==
    /\ Ready(r)
    /\ \A i \in 1 .. Len(lst) : lst[i] \in DOMAIN traps
    /\ req' = [req EXCEPT ![r] = Start(rt, s, lst)]
    /\ UNCHANGED <<traps, loaded, serving, memo>>

\* check, line 59: assert cls.trigger is not None
AssertTrigger(r) ==
    /\ req[r].pc = "assert_trigger"
    /\ req' = [req EXCEPT ![r] =
                  IF TriggerSet(Cls(req[r]))
                  THEN [@ EXCEPT !.pc = "assert_error"]
                  ELSE [@ EXCEPT !.pc = "raised", !.signal = AssertionError]]
    /\ UNCHANGED <<traps, loaded, serving, memo>>

\* check, line 60: assert cls.error is not None
AssertError(r) ==
    /\ req[r].pc = "assert_error"
    /\ req' = [req EXCEPT ![r] =
                  IF ErrorSet(Cls(req[r]))
                  THEN [@ EXCEPT !.pc = "compare"]
                  ELSE [@ EXCEPT !.pc = "raised", !.signal = AssertionError]]
    /\ UNCHANGED <<traps, loaded, serving, memo>>

\* check returned None: the handler goes on to its next trap, and past the
\* last one the classification is over without a signal.
AfterCheck(q) ==
    IF q.idx < Len(q.error_traps)
    THEN [q EXCEPT !.pc = "assert_trigger", !.idx = q.idx + 1]
    ELSE [q EXCEPT !.pc = "returned"]

\* The last line written as return cls.error(): the handler drops the value.
CompareReturns(r) ==
    /\ req[r].pc = "compare"
    /\ req' = [req EXCEPT ![r] = AfterCheck(@)]
    /\ UNCHANGED <<traps, loaded, serving, memo>>

\* check raising and also clearing the trigger of the class it raised for.
CompareConsume(r) ==
    /\ req[r].pc = "compare"
    /\ req' = [req EXCEPT ![r] =
                  IF Matches(req[r].status, Cls(req[r]))
                  THEN [@ EXCEPT !.pc = "raised", !.signal = Raised(Cls(req[r]))]
                  ELSE AfterCheck(@)]
    /\ traps' = IF Matches(req[r].status, Cls(req[r]))
                THEN [traps EXCEPT ![req[r].error_traps[req[r].idx]].trigger = None]
                ELSE traps
    /\ UNCHANGED <<loaded, serving, memo>>

\* check, lines 62-65: if status == cls.trigger: raise cls.error()
Compare(r) ==
    /\ req[r].pc = "compare"
    /\ req' = [req EXCEPT ![r] =
                  IF Matches(req[r].status, Cls(req[r]))
                  THEN [@ EXCEPT !.pc = "raised", !.signal = Raised(Cls(req[r]))]
                  ELSE AfterCheck(@)]
    /\ UNCHANGED <<traps, loaded, serving, memo>>

\* No trap raised: the handler goes on with its normal handling of the response.
Proceed(r) ==
    /\ req[r].pc = "returned"
    /\ req' = [req EXCEPT ![r].pc = "responded"]
    /\ UNCHANGED <<traps, loaded, serving, memo>>

\* The exception leaves the handler and reaches the error boundary above it,
\* which reports it to the client.
Catch(r) ==
    /\ req[r].pc = "raised"
    /\ req' = [req EXCEPT ![r].pc = "reported"]
    /\ UNCHANGED <<traps, loaded, serving, memo>>

\* The request is over; its handler task takes the next response.
Done(r) ==
    /\ Finished(req[r])
    /\ req' = [req EXCEPT ![r] = Idle]
    /\ UNCHANGED <<traps, loaded, serving, memo>>

\* What a classification was asked, and what it signalled.
Input(q) == <<q.status, q.error_traps>>

\* The request is over, and an observer remembers it: its input and its signal.
Remember(r) ==
    /\ Finished(req[r])
    /\ memo = <<>>
    /\ memo' = <<Input(req[r]), req[r].signal>>
    /\ req' = [req EXCEPT ![r] = Idle]
    /\ UNCHANGED <<traps, loaded, serving>>

----------------------------------------------------------------------------
(* Spec: the module as written, one request at a time, any list of the     *)
(* module's classes as the handler's traps.                                *)

Init ==
    /\ traps = << >>
    /\ loaded = 0
    /\ serving = FALSE
    /\ req = [r \in Requests |-> Idle]
    /\ memo = <<>>

BeginAny ==
    /\ Ready("r1")
    /\ \E lst \in Lists(DOMAIN traps, MaxTraps) :
          \E rt \in ResponseTypes, s \in Statuses : Begin("r1", rt, s, lst)

Next ==
    \/ ImportStep
    \/ ImportDone
    \/ BeginAny
    \/ AssertTrigger("r1")
    \/ AssertError("r1")
    \/ Compare("r1")
    \/ Proceed("r1")
    \/ Catch("r1")
    \/ Done("r1")

Spec == Init /\ [][Next]_vars

----------------------------------------------------------------------------
(* SpecConc: the module as written, the requests running concurrently,     *)
(* each classifying a response against the rule set of its response type.  *)

BeginRuleSet(r) ==
    /\ Ready(r)
    /\ \E rt \in ResponseTypes :
          \E lst \in Orders(RuleSet(rt)) :
             \E s \in Statuses : Begin(r, rt, s, lst)

NextConc ==
    \/ ImportStep
    \/ ImportDone
    \/ \E r \in Requests :
          \/ BeginRuleSet(r)
          \/ AssertTrigger(r)
          \/ AssertError(r)
          \/ Compare(r)
          \/ Proceed(r)
          \/ Catch(r)
          \/ Done(r)

SpecConc == Init /\ [][NextConc]_vars

----------------------------------------------------------------------------
(* SpecIdem: the module as written, one request after another, with one    *)
(* earlier classification remembered and compared with the later ones.     *)

NextIdem ==
    \/ ImportStep
    \/ ImportDone
    \/ BeginRuleSet("r1")
    \/ AssertTrigger("r1")
    \/ AssertError("r1")
    \/ Compare("r1")
    \/ Proceed("r1")
    \/ Catch("r1")
    \/ Done("r1")
    \/ Remember("r1")

SpecIdem == Init /\ [][NextIdem]_vars

----------------------------------------------------------------------------
(* SpecConfig: the module as written, plus child classes of _ErrorTrap     *)
(* that a handler module defines for the state-get response as the         *)
(* docstring asks, defining (or forgetting to define) the two class        *)
(* variables; one request at a time.                                       *)

ConfigResponse == "ClientStateGetResponse"

\* What a child class may bind trigger and error to.
ChildTriggers == { None, {EnumValue(ConfigResponse, "NO_RESOURCE")} }

ChildErrors == { None, {"InvalidStateAddress"} }

\* The classes the module itself defines.
ModuleClasses == { ModuleBody[i].name : i \in 1 .. Len(ModuleBody) }

\* class ChildN(_ErrorTrap): a class variable the child does not define is
\* inherited from _ErrorTrap, where it is None.  The class statement binds
\* the class whatever it defines.
DefineChild ==
    /\ ~serving
    /\ loaded >= Len(ModuleBody)
    /\ loaded < Len(ModuleBody) + MaxChildren
    /\ \E t \in ChildTriggers, e \in ChildErrors :
          Define("Child" \o ToString(loaded), [trigger |-> t, error |-> e])
    /\ loaded' = loaded + 1
    /\ UNCHANGED <<serving, req, memo>>

\* Start-up is over with the classes defined so far.
ConfigDone ==
    /\ ~serving
    /\ loaded >= Len(ModuleBody)
    /\ serving' = TRUE
    /\ UNCHANGED <<traps, loaded, req, memo>>

\* The classes a state-get handler has to pick its traps from.
ConfigClasses ==
    {ErrorTrap.name} \cup RuleSet(ConfigResponse) \cup (DOMAIN traps \ ModuleClasses)

BeginConfig ==
    /\ Ready("r1")
    /\ \E lst \in Lists(ConfigClasses, MaxTraps) :
          \E s \in Statuses : Begin("r1", ConfigResponse, s, lst)

NextConfig ==
    \/ ImportStep
    \/ DefineChild
    \/ ConfigDone
    \/ BeginConfig
    \/ AssertTrigger("r1")
    \/ AssertError("r1")
    \/ Compare("r1")
    \/ Proceed("r1")
    \/ Catch("r1")
    \/ Done("r1")

SpecConfig == Init /\ [][NextConfig]_vars

----------------------------------------------------------------------------
(* What the claims are stated with.                                        *)

Range(f) == { f[i] : i \in 1 .. Len(f) }

\* The rule catalogue of the specification, section 4.2: response type,
\* triggering status, condition signalled.
Catalogue ==
    { <<"ClientBatchStatusResponse", "NO_RESOURCE", "StatusResponseMissing">>,
      <<"ClientBatchSubmitResponse", "INVALID_BATCH", "SubmittedBatchesInvalid">>,
      <<"ClientBatchSubmitResponse", "QUEUE_FULL", "BatchQueueFull">>,
      <<"ClientStateGetResponse", "INVALID_ADDRESS", "InvalidStateAddress">>,
      <<"ClientStateGetResponse", "NO_RESOURCE", "StateNotFound">>,
      <<"ClientStateListResponse", "INVALID_ADDRESS", "InvalidStateAddress">>,
      <<"ClientBlockGetResponse", "NO_RESOURCE", "BlockNotFound">>,
      <<"ClientBatchGetResponse", "NO_RESOURCE", "BatchNotFound">>,
      <<"ClientTransactionGetResponse", "NO_RESOURCE", "TransactionNotFound">>,
      <<"ClientReceiptGetResponse", "NO_RESOURCE", "ReceiptNotFound">> }

\* Status s is listed for response type rt in the catalogue.
Listed(rt, s) ==
    \E row \in Catalogue : row[1] = rt /\ EnumValue(row[1], row[2]) = s

\* Status s is the integer of a named member of rt's enumeration: OK, or a
\* status the catalogue lists for rt.
Member(rt, s) == s = EnumValue(rt, "OK") \/ Listed(rt, s)

\* lst is the whole rule set of rt, in some order.
IsRuleSet(lst, rt) ==
    Len(lst) = Cardinality(RuleSet(rt)) /\ Range(lst) = RuleSet(rt)

\* The classification is over: it returned or it raised.
Classified(q) == q.pc \in {"returned", "raised", "responded", "reported"}

InCheck(q) == q.pc \in {"assert_trigger", "assert_error", "compare"}

\* The class has its trigger or its error unset.
IsUnset(cls) == cls.trigger = None \/ cls.error = None

\* The class statement of the module that defines class c.
StmtOf(c) == CHOOSE st \in Range(ModuleBody) : st.name = c

\* What classifying status s against lst gives a request that runs alone
\* against the classes as the module defines them.
RECURSIVE AloneFrom(_, _, _)
AloneFrom(s, lst, i) ==
    IF i > Len(lst) THEN None
    ELSE LET cls == ClassObject(StmtOf(lst[i])) IN
         IF IsUnset(cls) THEN AssertionError
         ELSE IF {s} = cls.trigger THEN cls.error
         ELSE AloneFrom(s, lst, i + 1)

\* The classes registered for response type rt: the module's, and for the
\* state-get response the child classes defined at start-up.
RegisteredFor(rt) ==
    (RuleSet(rt) \cap DOMAIN traps)
      \cup (IF rt = ConfigResponse THEN DOMAIN traps \ ModuleClasses ELSE {})

----------------------------------------------------------------------------
\* C1: for each of the ten (response type, triggering status) pairs of the
\* catalogue, classifying that status against the rule set of that response
\* type never returns normally and raises exactly the condition the
\* catalogue lists for the pair, and no other; and the module defines as
\* many traps for a response type as the catalogue has rows for it.
C1_CatalogueConditions ==
    \A row \in Catalogue :
        /\ Cardinality(RuleSet(row[1]))
              = Cardinality({ x \in Catalogue : x[1] = row[1] })
        /\ \A r \in Requests :
              LET q == req[r] IN
              ( /\ q.pc # "idle"
                /\ q.rtype = row[1]
                /\ q.status = EnumValue(row[1], row[2])
                /\ IsRuleSet(q.error_traps, q.rtype) )
              => /\ q.pc \notin {"returned", "responded"}
                 /\ q.signal \in {None, {row[3]}}
                 /\ q.pc \in {"raised", "reported"} => q.signal = {row[3]}

\* C1 witness: a batch-submit response with QUEUE_FULL got BatchQueueFull from
\* the second trap of its rule set.
C1_Witness ==
    \E r \in Requests :
        /\ req[r].pc = "reported"
        /\ req[r].rtype = "ClientBatchSubmitResponse"
        /\ req[r].status = EnumValue("ClientBatchSubmitResponse", "QUEUE_FULL")
        /\ req[r].error_traps = <<"BatchInvalidTrap", "BatchQueueFullTrap">>
        /\ req[r].signal = {"BatchQueueFull"}

C4_UnsetAlwaysFaults ==
    \A r \in Requests :
        LET q == req[r] IN
        (q.idx >= 1 /\ IsUnset(Cls(q)))
        => /\ q.pc \in {"assert_trigger", "assert_error", "raised", "reported"}
           /\ q.pc = "assert_error" => Cls(q).trigger # None
           /\ q.pc \in {"raised", "reported"} => q.signal = AssertionError

\* C4 witness: a class with its trigger set and its error unset was checked
\* with the status that equals the trigger, and AssertionError came out.
C4_Witness ==
    \E r \in Requests :
        /\ req[r].pc = "reported"
        /\ req[r].signal = AssertionError
        /\ Cls(req[r]).trigger = {req[r].status}
        /\ Cls(req[r]).error = None

\* C5 as claimed: the uniqueness of triggers within a rule set is verified at
\* start-up, so once start-up is over no two rules registered for a response
\* type share a trigger.
C5_VerifiedAtStartup ==
    serving =>
        \A rt \in ResponseTypes : \A c1, c2 \in RegisteredFor(rt) :
            (c1 # c2 /\ traps[c1].trigger # None)
                => traps[c1].trigger # traps[c2].trigger

\* C5 as amended: no two traps the module defines for one response type
\* share a trigger, and for every list of set rules with pairwise distinct
\* triggers the outcome is the error of the one rule whose trigger is the
\* status, or none: a function of the set of rules, the same for every order.
C5_DistinctTriggersOneMatch ==
    /\ \A rt \in ResponseTypes : \A c1, c2 \in RuleSet(rt) \cap DOMAIN traps :
          c1 # c2 => traps[c1].trigger # traps[c2].trigger
    /\ \A r \in Requests :
          LET q == req[r]
              rules == Range(q.error_traps)
              hits == { c \in rules : {q.status} = traps[c].trigger }
          IN  ( /\ Classified(q)
                /\ \A c \in rules : ~IsUnset(traps[c])
                /\ \A c1, c2 \in rules :
                      c1 # c2 => traps[c1].trigger # traps[c2].trigger )
              => /\ Cardinality(hits) <= 1
                 /\ q.signal = UNION { traps[c].error : c \in hits }

\* C5 witness: the state-get rule set listed against its source order, the
\* status matching the rule listed last.
C5_Witness ==
    \E r \in Requests :
        /\ req[r].pc = "reported"
        /\ req[r].error_traps = <<"StateNotFoundTrap", "InvalidAddressTrap">>
        /\ req[r].status = EnumValue("ClientStateGetResponse", "INVALID_ADDRESS")
        /\ req[r].signal = {"InvalidStateAddress"}

\* C6: when a rule matches the status, the classification never returns
\* normally: no later trap is checked and the normal handling never runs,
\* the rule's own error is what is raised, and it is what the error boundary
\* receives.
C6_MatchInterrupts ==
    \A r \in Requests :
        LET q == req[r] IN
        q.pc # "idle" =>
            \A i \in 1 .. Len(q.error_traps) :
                ( /\ {q.status} = traps[q.error_traps[i]].trigger
                  /\ \A j \in 1 .. i : ~IsUnset(traps[q.error_traps[j]])
                  /\ \A j \in 1 .. i - 1 :
                        {q.status} # traps[q.error_traps[j]].trigger )
                => /\ q.idx <= i
                   /\ q.pc \notin {"returned", "responded"}
                   /\ q.pc \in {"raised", "reported"} =>
                         /\ q.idx = i
                         /\ q.signal = traps[q.error_traps[i]].error

\* C6 witness: the first of two traps matched; the second was never checked
\* and the boundary got the first one's error.
C6_Witness ==
    \E r \in Requests :
        /\ req[r].pc = "reported"
        /\ req[r].error_traps = <<"StateNotFoundTrap", "InvalidAddressTrap">>
        /\ req[r].idx = 1
        /\ req[r].signal = {"StateNotFound"}

\* C7: whatever was classified in between, classifying the status and rule
\* set of the remembered classification again gives the remembered outcome.
C7_SameOutcomeAgain ==
    memo # <<>> =>
        \A r \in Requests :
            (Classified(req[r]) /\ Input(req[r]) = memo[1])
            => req[r].signal = memo[2]

\* C7 witness: a classification that raised was remembered, its request
\* ended, and a later request with the same input has raised the same.
C7_Witness ==
    /\ memo # <<>>
    /\ memo[2] # None
    /\ \E r \in Requests :
          /\ req[r].pc = "reported"
          /\ Input(req[r]) = memo[1]
          /\ req[r].signal = memo[2]

\* C8: under every interleaving each request's outcome is the one it gets
\* running alone, and while a request is handled every class of the module is
\* defined with the attributes its class statement gives it.
C8_ConcurrentAsAlone ==
    \A r \in Requests :
        LET q == req[r] IN
        q.pc # "idle" =>
            /\ loaded = Len(ModuleBody)
            /\ DOMAIN traps = ModuleClasses
            /\ \A c \in ModuleClasses : traps[c] = ClassObject(StmtOf(c))
            /\ RuleSet(q.rtype) = Range(q.error_traps)
            /\ Classified(q) => q.signal = AloneFrom(q.status, q.error_traps, 1)

\* C8 witness: two requests in check on the same class at the same time, with
\* different statuses, one of them the trigger.
C8_Witness ==
    /\ req["r1"].pc = "compare"
    /\ req["r2"].pc = "compare"
    /\ req["r1"].error_traps[req["r1"].idx] = "StateNotFoundTrap"
    /\ req["r2"].error_traps[req["r2"].idx] = "StateNotFoundTrap"
    /\ req["r1"].status = EnumValue("ClientStateGetResponse", "NO_RESOURCE")
    /\ req["r2"].status = EnumValue("ClientStateGetResponse", "OK")

\* C9: once requests are handled no step changes the classes (none is
\* created, changed or removed), and a step of check leaves the status and
\* the trap list of its request as they were.
C9_CheckChangesNothing ==
    [][ serving =>
          /\ traps' = traps
          /\ \A r \in Requests :
                InCheck(req[r]) =>
                    /\ req'[r].status = req[r].status
                    /\ req'[r].error_traps = req[r].error_traps
                    /\ req'[r].rtype = req[r].rtype ]_vars

\* C9 witness: check has raised a configuration fault and, in another run, a
\* rule's error; here the fault, with the classes as the module defines them.
C9_Witness ==
    \E r \in Requests :
        /\ req[r].pc = "raised"
        /\ req[r].signal = AssertionError
        /\ req[r].idx = 2
        /\ DOMAIN traps = ModuleClasses
        /\ \A c \in ModuleClasses : traps[c] = ClassObject(StmtOf(c))

\* C10 as claimed: a status that is a member of one response type's
\* enumeration never matches a trap whose trigger is of another response
\* type's enumeration.
C10_NoMatchAcrossEnums ==
    \A r \in Requests :
        LET q == req[r] IN
        ( /\ q.pc \in {"raised", "reported"}
          /\ q.signal # AssertionError
          /\ Member(q.rtype, q.status) )
        => q.error_traps[q.idx] \in RuleSet(q.rtype)

\* C10 as amended: only the integers are compared.  A trap raises exactly
\* when the status has the integer of its trigger, whatever response type
\* the status is of; a classification returns normally exactly when no trap
\* of the list has a trigger of that integer.
C10_MatchByInteger ==
    \A r \in Requests :
        LET q == req[r]
            int(c) == { EnumValue(e[1], e[2]) : e \in StmtOf(c).trigger }
        IN  /\ (q.pc \in {"raised", "reported"} /\ q.signal # AssertionError)
                  => /\ {q.status} = int(q.error_traps[q.idx])
                     /\ q.signal = StmtOf(q.error_traps[q.idx]).error
            /\ q.pc \in {"returned", "responded"}
                  => \A c \in Range(q.error_traps) : {q.status} # int(c)

\* C10 witness: a block-get response with NO_RESOURCE checked by
\* BatchNotFoundTrap was reported as BatchNotFound.
C10_Witness ==
    \E r \in Requests :
        /\ req[r].pc = "reported"
        /\ req[r].rtype = "ClientBlockGetResponse"
        /\ req[r].status = EnumValue("ClientBlockGetResponse", "NO_RESOURCE")
        /\ req[r].error_traps = <<"BatchNotFoundTrap">>
        /\ req[r].signal = {"BatchNotFound"}

====
